---- MODULE Spec2Model ----
(***************************************************************************)
(* A model of src/advanced-vector/vector.h: RawMemory<T> (an owner of a    *)
(* raw block of slots) and Vector<T> (a RawMemory plus the count size_ of  *)
(* leading slots that hold constructed elements).                          *)
(*                                                                         *)
(* Raw blocks live in `heap`, keyed by a block identity, so that handing a *)
(* block over (move, Swap) and copying its elements are different things.  *)
(* A slot holds NoObj (raw memory, no object), MovedFrom (a live object    *)
(* that has been moved from) or a value 1..MaxVal (a live object).         *)
(* Every public operation is one action; an operation that can throw takes *)
(* the throwing step as an input and runs the handler the code runs.       *)
(* `last` records which operation ran last and what its handlers did.      *)
(***************************************************************************)
EXTENDS Integers, Sequences, FiniteSets, TLC

VARIABLES kind, room, vec, heap, last

vars == <<kind, room, vec, heap, last>>

\* ---- bounds ----
MaxVal == 2
MaxSlots == 4
MaxPushSlots == 8

\* ---- slots ----
NoObj == -1
MovedFrom == 0
Values == 1 .. MaxVal
Vecs == {"a", "b"}
BufIds == 1 .. (Cardinality(Vecs) + 1)
Kinds == {"NothrowMove", "ThrowingMove", "MoveOnly"}

\* ---- the element type T ----
IsNothrowMoveConstructible == kind = "NothrowMove"
IsCopyConstructible == kind # "MoveOnly"
IsNothrowMoveAssignable == kind = "NothrowMove"

\* ---- helpers on blocks ----
Min(x, y) == IF x < y THEN x ELSE y
Raw(n) == [i \in 1 .. n |-> NoObj]
DataOf(vc, hp, v) == IF vc[v].buf = 0 THEN << >> ELSE hp[vc[v].buf]
Data(v) == DataOf(vec, heap, v)
At(s, i) == IF i + 1 \in DOMAIN s THEN s[i + 1] ELSE NoObj
Put(s, i, x) == [s EXCEPT ![i + 1] = x]
LiveIn(s, lo, hi) == {i \in lo .. hi - 1 : At(s, i) # NoObj}
DeadIn(s, lo, hi) == {i \in lo .. hi - 1 : At(s, i) = NoObj}
CountLive(s, lo, hi) == Cardinality(LiveIn(s, lo, hi))
CountDead(s, lo, hi) == Cardinality(DeadIn(s, lo, hi))
DestroyN(s, lo, hi) == [i \in DOMAIN s |-> IF lo < i /\ i <= hi THEN NoObj ELSE s[i]]
DestroySet(s, D) == [i \in DOMAIN s |-> IF (i - 1) \in D THEN NoObj ELSE s[i]]

\* ---- observers ----
Size(v) == vec[v].size
Capacity(v) == vec[v].cap
ContentsOf(vc, hp, v) == [i \in 1 .. Min(vc[v].size, Len(DataOf(vc, hp, v))) |-> DataOf(vc, hp, v)[i]]
Contents(v) == ContentsOf(vec, heap, v)
Usable(v) == vec[v].alive /\ vec[v].size <= Len(Data(v)) /\ DeadIn(Data(v), 0, vec[v].size) = {}

\* ---- RawMemory ----
NewId == CHOOSE id \in BufIds : heap[id] = << >> /\ \A j \in BufIds : heap[j] = << >> => id <= j
Allocate(n) == IF n # 0 THEN NewId ELSE 0
Store(h, b, s) == IF b = 0 THEN h ELSE [h EXCEPT ![b] = s]
Deallocate(h, b) == IF b = 0 THEN h ELSE [h EXCEPT ![b] = << >>]
\* the largest block this run's allocator is asked for
Fits(v, n) == n <= room

NullVec == [alive |-> FALSE, buf |-> 0, cap |-> 0, size |-> 0]
EmptyVec == [alive |-> TRUE, buf |-> 0, cap |-> 0, size |-> 0]

\* ---- the record of the last operation ----
NoOp == [op |-> "-", v |-> "-", o |-> "-", path |-> "-", out |-> "ok", k |-> -1, x |-> -1, j |-> -1, arg |-> "-",
         f |-> "none", fi |-> -1, built |-> {}, undone |-> {}, leaked |-> 0, ubd |-> 0, ret |-> -1]
Op(name, v) == [NoOp EXCEPT !.op = name, !.v = v]
Threw(r, f) == [r EXCEPT !.out = "threw", !.f = f[1], !.fi = f[2], !.k = -1, !.x = -1, !.j = -1, !.ret = -1]
Rolled(r, built, undone) ==
    [r EXCEPT !.built = built, !.undone = undone,
              !.leaked = Cardinality(built \ undone), !.ubd = Cardinality(undone \ built)]

\* an operation starts when the caller has taken the result of the one before
Idle == last = NoOp
Eff(me, h, rec) == [me |-> me, h |-> h, rec |-> rec]
Done(vec2, heap2, rec) == vec' = vec2 /\ heap' = heap2 /\ last' = rec /\ UNCHANGED <<kind, room>>
Commit(v, e) == Done([vec EXCEPT ![v] = e.me], e.h, e.rec)

\* ---- the step of an operation that throws ----
None == <<"none", -1>>
Steps(tag, n) == {<<tag, i>> : i \in 0 .. n - 1}

Init ==
    /\ kind \in Kinds
    /\ room = MaxSlots
    /\ vec = [v \in Vecs |-> IF v = "a" THEN EmptyVec ELSE NullVec]
    /\ heap = [b \in BufIds |-> << >>]
    /\ last = NoOp

\* ---- relocation of existing elements into a new block ----
AlwaysMoves == TRUE
MovesOnRelocate == IsNothrowMoveConstructible \/ ~IsCopyConstructible
RelocateCanThrow == IF MovesOnRelocate THEN ~IsNothrowMoveConstructible ELSE TRUE
\* n elements old[from ..] are constructed at new[to ..]; a moved element leaves MovedFrom behind
RelocNewReversed(old, new, from, to, n) ==
    [i \in DOMAIN new |-> IF to < i /\ i <= to + n THEN At(old, from + n - (i - to)) ELSE new[i]]
RelocNew(old, new, from, to, n) ==
    [i \in DOMAIN new |-> IF to < i /\ i <= to + n THEN At(old, i - 1 - to + from) ELSE new[i]]
RelocOld(old, from, n) ==
    IF MovesOnRelocate
    THEN [i \in DOMAIN old |-> IF from < i /\ i <= from + n THEN MovedFrom ELSE old[i]]
    ELSE old
\* the old block is emptied of its size_ elements, released, and the new one swapped in
SwapIn(v, old, new, n, size2, rec) ==
    LET nb == Allocate(n)
        old2 == DestroyN(old, 0, vec[v].size)
    IN Eff([vec[v] EXCEPT !.buf = nb, !.cap = n, !.size = size2],
           Store(Deallocate(heap, vec[v].buf), nb, new),
           [rec EXCEPT !.leaked = @ + CountLive(old2, 0, vec[v].cap)])

\* ---- Reserve ----
ReserveFails(v, n) ==
    IF n <= vec[v].cap THEN {None}
    ELSE {None, <<"alloc", -1>>} \cup (IF RelocateCanThrow THEN Steps("xfer", vec[v].size) ELSE {})
ReserveEff(v, n, f, r0) ==
    LET me == vec[v]
        old == Data(v)
        r == [r0 EXCEPT !.path = "realloc"]
    IN IF n <= me.cap THEN Eff(me, heap, [r0 EXCEPT !.path = "noop", !.k = -1])
       ELSE IF f[1] = "alloc" THEN Eff(me, heap, Threw(r, f))
       ELSE IF f[1] = "xfer"
       THEN LET i == f[2]
                new1 == RelocNew(old, Raw(n), 0, 0, i)
            IN Eff(me, Store(heap, me.buf, RelocOld(old, 0, i)),
                   Rolled(Threw(r, f), LiveIn(new1, 0, n), 0 .. i - 1))
       ELSE SwapIn(v, RelocOld(old, 0, me.size), RelocNew(old, Raw(n), 0, 0, me.size), n, me.size, r)
Reserve(v, n) ==
    /\ Idle
    /\ Usable(v)
    /\ n > vec[v].cap => Fits(v, n)
    /\ \E f \in ReserveFails(v, n) : Commit(v, ReserveEff(v, n, f, [Op("Reserve", v) EXCEPT !.k = n]))

\* ---- Resize ----
ValueInit == 1
ResizeFails(v, n) ==
    IF n <= vec[v].size THEN {None}
    ELSE (IF n > vec[v].cap THEN ReserveFails(v, n) ELSE {None}) \cup Steps("fill", n - vec[v].size)
\* std::uninitialized_value_construct_n over slots [lo, lo + cnt), throwing at the (i+1)-th
FillN(s, lo, cnt) == [j \in DOMAIN s |-> IF lo < j /\ j <= lo + cnt THEN ValueInit ELSE s[j]]
ResizeEff(v, n, f) ==
    LET me == vec[v]
        r0 == [Op("Resize", v) EXCEPT !.k = n]
    IN IF n < me.size
       THEN Eff([me EXCEPT !.size = n], Store(heap, me.buf, DestroyN(Data(v), n, me.size)),
                [r0 EXCEPT !.path = "shrink"])
       ELSE IF n = me.size THEN Eff(me, heap, [r0 EXCEPT !.path = "noop", !.k = -1])
       ELSE LET e == IF n > me.cap
                     THEN ReserveEff(v, n, IF f[1] = "fill" THEN None ELSE f, r0)
                     ELSE Eff(me, heap, [r0 EXCEPT !.path = "spare"])
                d == IF e.me.buf = 0 THEN << >> ELSE e.h[e.me.buf]
                count == n - me.size
            IN IF e.rec.out = "threw" THEN e
               ELSE IF f[1] = "fill"
               THEN LET i == f[2]
                        \* the library call destroys the i elements it built and rethrows
                        d1 == DestroyN(FillN(d, me.size, i), me.size, me.size + i)
                        over == CountLive(d, me.size, me.size + i)
                        \* the handler then destroys all count slots again
                        D == me.size .. me.size + count - 1
                    IN Eff(e.me, Store(e.h, e.me.buf, DestroySet(d1, D)),
                           [Threw(e.rec, f) EXCEPT !.built = me.size .. me.size + i - 1,
                                                   !.undone = me.size .. me.size + i - 1,
                                                   !.leaked = @ + over,
                                                   !.ubd = CountDead(d1, me.size, me.size + count)])
               ELSE Eff([e.me EXCEPT !.size = n], Store(e.h, e.me.buf, FillN(d, me.size, count)),
                        [e.rec EXCEPT !.leaked = @ + CountLive(d, me.size, n)])
Resize(v, n) ==
    /\ Idle
    /\ Usable(v)
    /\ n > vec[v].cap => Fits(v, n)
    /\ \E f \in ResizeFails(v, n) : Commit(v, ResizeEff(v, n, f))

\* ---- EmplaceBack, PushBack ----
GrowByOne(cap) == cap + 1
GrowCap(cap) == IF cap = 0 THEN 1 ELSE cap * 2
EmplaceBackFails(v) ==
    IF vec[v].size < vec[v].cap THEN {None, <<"ctor", -1>>}
    ELSE {None, <<"alloc", -1>>, <<"ctor", -1>>}
         \cup (IF RelocateCanThrow THEN Steps("xfer", vec[v].size) ELSE {})
\* the rollback of the growth path destroys the first new_size slots of the new block
EmplaceBackUndone(newSize) == 0 .. newSize - 1
EmplaceBackEff(v, x, f) ==
    LET me == vec[v]
        old == Data(v)
        r0 == [Op("EmplaceBack", v) EXCEPT !.x = x, !.k = me.size, !.ret = me.size]
    IN IF me.size < me.cap
       THEN LET r == [r0 EXCEPT !.path = "spare"]
            IN IF f[1] = "ctor" THEN Eff(me, heap, Threw(r, f))
               ELSE Eff([me EXCEPT !.size = @ + 1], Store(heap, me.buf, Put(old, me.size, x)),
                        [r EXCEPT !.leaked = CountLive(old, me.size, me.size + 1)])
       ELSE LET r == [r0 EXCEPT !.path = "realloc"]
                n == GrowCap(me.cap)
                new0 == Put(Raw(n), me.size, x)
            IN IF f[1] = "alloc" THEN Eff(me, heap, Threw(r, f))
               ELSE IF f[1] = "ctor" THEN Eff(me, heap, Rolled(Threw(r, f), {}, EmplaceBackUndone(0)))
               ELSE IF f[1] = "xfer"
               THEN LET i == f[2]
                        new1 == RelocNew(old, new0, 0, 0, i)
                    IN Eff(me, Store(heap, me.buf, RelocOld(old, 0, i)),
                           Rolled(Threw(r, f), LiveIn(new1, 0, n), EmplaceBackUndone(1 + i)))
               ELSE SwapIn(v, RelocOld(old, 0, me.size), RelocNew(old, new0, 0, 0, me.size),
                           n, me.size + 1, r)
PushBack(v, x) ==
    /\ Idle
    /\ Usable(v)
    /\ vec[v].size = vec[v].cap => Fits(v, GrowCap(vec[v].cap))
    /\ \E f \in EmplaceBackFails(v) : Commit(v, EmplaceBackEff(v, x, f))

\* ---- PopBack ----
PopBack(v) ==
    /\ Idle
    /\ Usable(v)
    /\ vec[v].size > 0
    /\ Commit(v, Eff([vec[v] EXCEPT !.size = @ - 1],
                     Store(heap, vec[v].buf, DestroyN(Data(v), vec[v].size - 1, vec[v].size)),
                     [Op("PopBack", v) EXCEPT !.k = vec[v].size - 1]))

\* ---- Emplace ----
\* the constructor argument: a value held outside the array, or a reference to slot j of it
ArgVal(d, arg) == IF arg.ref = "slot" THEN At(d, arg.j) ELSE arg.x
ArgTaken(d, arg) == IF arg.ref = "slot" /\ arg.mv THEN Put(d, arg.j, MovedFrom) ELSE d
CtorCanThrow(arg) == ~(arg.mv /\ IsNothrowMoveConstructible)
\* slot size is built from slot size-1, then c elements are move-assigned one slot up, last first
ShiftPartial(d, size, c) ==
    [i \in DOMAIN d |-> IF size - c < i /\ i <= size + 1 THEN d[i - 1]
                        ELSE IF i = size - c THEN MovedFrom ELSE d[i]]
ShiftRightShort(d, k, size) == ShiftPartial(d, size, IF size - 1 - k > 0 THEN size - 2 - k ELSE 0)
ShiftRight(d, k, size) == ShiftPartial(d, size, size - 1 - k)
\* the handler: the elements after slot k are move-assigned one slot down, the last slot destroyed
UnShift(d, k, size1) ==
    [i \in DOMAIN d |-> IF k < i /\ i < size1 THEN d[i + 1]
                        ELSE IF i = size1 THEN NoObj ELSE d[i]]
EmplaceFails(v, k, arg) ==
    LET me == vec[v]
        ctor == IF CtorCanThrow(arg) \/ ~IsNothrowMoveAssignable THEN {<<"ctor", -1>>} ELSE {}
    IN IF me.size < me.cap
       THEN IF k = me.size THEN {None} \cup (IF CtorCanThrow(arg) THEN {<<"ctor", -1>>} ELSE {})
            ELSE {None} \cup ctor
                 \cup (IF IsNothrowMoveConstructible THEN {} ELSE {<<"tail", -1>>})
                 \cup (IF IsNothrowMoveAssignable THEN {} ELSE Steps("shift", me.size - 1 - k))
       ELSE {None, <<"alloc", -1>>}
            \cup (IF CtorCanThrow(arg) THEN {<<"ctor", -1>>} ELSE {})
            \cup (IF RelocateCanThrow THEN Steps("xfer", me.size) ELSE {})
EmplaceEff(v, k, arg, f, d, r0) ==
    LET me == vec[v]
        r1 == [r0 EXCEPT !.k = k, !.ret = k]
    IN IF me.size < me.cap
       THEN IF k = me.size
            THEN LET r == [r1 EXCEPT !.path = "spare-end", !.x = ArgVal(d, arg)]
                 IN IF f[1] = "ctor" THEN Eff(me, Store(heap, me.buf, d), Threw(r, f))
                    ELSE Eff([me EXCEPT !.size = @ + 1],
                             Store(heap, me.buf, Put(ArgTaken(d, arg), me.size, ArgVal(d, arg))),
                             [r EXCEPT !.leaked = CountLive(d, me.size, me.size + 1)])
            ELSE LET r == [r1 EXCEPT !.path = "spare-mid"]
                     d1 == ShiftRight(d, k, me.size)
                     over == CountLive(d, me.size, me.size + 1)
                 IN IF f[1] = "tail" THEN Eff(me, Store(heap, me.buf, d), Threw(r, f))
                    ELSE IF f[1] = "shift"
                    THEN Eff([me EXCEPT !.size = @ + 1],
                             Store(heap, me.buf, ShiftPartial(d, me.size, f[2])),
                             [Threw(r, f) EXCEPT !.leaked = over])
                    ELSE IF f[1] = "ctor"
                    THEN Eff(me, Store(heap, me.buf, UnShift(d1, k, me.size + 1)),
                             [Threw(r, f) EXCEPT !.leaked = over, !.built = {me.size}, !.undone = {me.size}])
                    ELSE Eff([me EXCEPT !.size = @ + 1],
                             Store(heap, me.buf, Put(ArgTaken(d1, arg), k, ArgVal(d1, arg))),
                             [r EXCEPT !.x = ArgVal(d1, arg), !.leaked = over])
       ELSE LET r == [r1 EXCEPT !.path = "realloc"]
                n == GrowCap(me.cap)
                pre == RelocNew(d, Raw(n), 0, 0, k)
                dpre == RelocOld(d, 0, k)
                x == ArgVal(dpre, arg)
                mid == Put(pre, k, x)
                dmid == ArgTaken(dpre, arg)
            IN IF f[1] = "alloc" THEN Eff(me, Store(heap, me.buf, d), Threw(r, f))
               ELSE IF f[1] = "xfer" /\ f[2] < k
               THEN LET new1 == RelocNew(d, Raw(n), 0, 0, f[2])
                    IN Eff(me, Store(heap, me.buf, RelocOld(d, 0, f[2])),
                           Rolled(Threw(r, f), LiveIn(new1, 0, n), 0 .. f[2] - 1))
               ELSE IF f[1] = "ctor"
               THEN Eff(me, Store(heap, me.buf, dpre), Rolled(Threw(r, f), LiveIn(pre, 0, n), 0 .. k - 1))
               ELSE IF f[1] = "xfer"
               THEN LET new1 == RelocNew(dmid, mid, k, k + 1, f[2] - k)
                    IN Eff(me, Store(heap, me.buf, RelocOld(dmid, k, f[2] - k)),
                           Rolled(Threw(r, f), LiveIn(new1, 0, n), 0 .. f[2]))
               ELSE SwapIn(v, RelocOld(dmid, k, me.size - k), RelocNew(dmid, mid, k, k + 1, me.size - k),
                           n, me.size + 1, [r EXCEPT !.x = x])

\* ---- Insert ----
\* what is inserted: an outside value x, or the array's own element j; by const T& or by T&&
Sources(v) ==
    {[from |-> "ext", x |-> x, j |-> -1, mv |-> ~IsCopyConstructible] : x \in Values}
    \cup {[from |-> "own", x |-> -1, j |-> j, mv |-> m] : j \in 0 .. vec[v].size - 1, m \in BOOLEAN}
\* a value inside [begin, end) is first copied (const T&) or moved (T&&) into a temporary
NoStageArg(d, src) ==
    IF src.from = "own"
    THEN [ref |-> "slot", x |-> -1, j |-> src.j, mv |-> src.mv]
    ELSE [ref |-> "val", x |-> src.x, j |-> -1, mv |-> src.mv]
StageArg(d, src) ==
    IF src.from = "own"
    THEN [ref |-> "val", x |-> At(d, src.j), j |-> src.j, mv |-> TRUE]
    ELSE [ref |-> "val", x |-> src.x, j |-> -1, mv |-> src.mv]
StageData(d, src) == IF src.from = "own" /\ src.mv THEN Put(d, src.j, MovedFrom) ELSE d
StageCanThrow(src) == src.from = "own" /\ (~src.mv \/ ~IsNothrowMoveConstructible)
ArgName(src) == IF src.from = "ext" THEN "value" ELSE IF src.mv THEN "self-rvalue" ELSE "self"
Insert(v, k, src) ==
    LET r0 == [Op("Insert", v) EXCEPT !.arg = ArgName(src), !.j = src.j]
        arg == StageArg(Data(v), src)
    IN /\ Idle
       /\ Usable(v)
       /\ k <= vec[v].size
       /\ src.mv \/ IsCopyConstructible
       /\ vec[v].size = vec[v].cap => Fits(v, GrowCap(vec[v].cap))
       /\ \/ /\ StageCanThrow(src)
             /\ Commit(v, Eff(vec[v], heap, [Threw(r0, <<"tmp", -1>>) EXCEPT !.arg = ArgName(src)]))
          \/ \E f \in EmplaceFails(v, k, arg) :
                LET e == EmplaceEff(v, k, arg, f, StageData(Data(v), src), r0)
                IN Commit(v, [e EXCEPT !.rec.arg = ArgName(src)])

\* ---- Erase ----
\* c elements after slot k are move-assigned one slot down, first first
ShiftLeftPartial(d, k, c) ==
    [i \in DOMAIN d |-> IF k < i /\ i <= k + c THEN d[i + 1]
                        ELSE IF i = k + c + 1 /\ c > 0 THEN MovedFrom ELSE d[i]]
ShiftLeftShort(d, k, size) == ShiftLeftPartial(d, k, IF size - 1 - k > 0 THEN size - 2 - k ELSE 0)
ShiftLeft(d, k, size) == ShiftLeftPartial(d, k, size - 1 - k)
Erase(v, k) ==
    LET me == vec[v]
        r == [Op("Erase", v) EXCEPT !.k = k, !.ret = k]
    IN /\ Idle
       /\ Usable(v)
       /\ k < me.size
       /\ \/ Commit(v, Eff([me EXCEPT !.size = @ - 1],
                           Store(heap, me.buf, DestroyN(ShiftLeft(Data(v), k, me.size), me.size - 1, me.size)),
                           r))
          \/ /\ ~IsNothrowMoveAssignable
             /\ \E f \in Steps("shift", me.size - 1 - k) :
                   Commit(v, Eff(me, Store(heap, me.buf, ShiftLeftPartial(Data(v), k, f[2])), Threw(r, f)))

\* ---- operator[] used to assign an element ----
SetElem(v, i, x) ==
    /\ Idle
    /\ Usable(v)
    /\ i < vec[v].size
    /\ Commit(v, Eff(vec[v], Store(heap, vec[v].buf, Put(Data(v), i, x)),
                     [Op("SetElem", v) EXCEPT !.k = i, !.x = x]))

\* ---- constructors and the destructor ----
DefaultCtor(v) ==
    /\ Idle
    /\ ~vec[v].alive
    /\ Commit(v, Eff(EmptyVec, heap, Op("Vector()", v)))

AllocFails(n) == IF n # 0 THEN {<<"alloc", -1>>} ELSE {}
\* a constructor that throws leaves no object: the library call has destroyed what it built
CtorThrew(v, r, f) ==
    Eff(vec[v], heap, [Threw(r, f) EXCEPT !.built = 0 .. f[2] - 1, !.undone = 0 .. f[2] - 1])
SizedCtor(v, n) ==
    LET r == [Op("Vector(size)", v) EXCEPT !.k = n]
    IN /\ Idle
       /\ ~vec[v].alive
       /\ Fits(v, n)
       /\ \E f \in {None} \cup AllocFails(n) \cup Steps("fill", n) :
             Commit(v, IF f = None
                       THEN Eff([alive |-> TRUE, buf |-> Allocate(n), cap |-> n, size |-> n],
                                Store(heap, Allocate(n), FillN(Raw(n), 0, n)), r)
                       ELSE CtorThrew(v, r, f))

\* the block the copy constructor builds into, and what std::uninitialized_copy_n puts there
ShareBlock(o) == vec[o].buf
CopyBlock(o) == Allocate(vec[o].size)
CopyN(src, n) == [i \in 1 .. n |-> At(src, i - 1)]
CopyCtorFails(o) == {None} \cup AllocFails(vec[o].size) \cup Steps("copy", vec[o].size)
CopyCtor(v, o) ==
    LET r == [Op("Vector(const&)", v) EXCEPT !.o = o]
        n == vec[o].size
    IN /\ Idle
       /\ ~vec[v].alive
       /\ Usable(o)
       /\ IsCopyConstructible
       /\ Fits(v, n)
       /\ \E f \in CopyCtorFails(o) :
             Commit(v, IF f = None
                       THEN Eff([alive |-> TRUE, buf |-> CopyBlock(o), cap |-> n, size |-> n],
                                Store(heap, CopyBlock(o), CopyN(Data(o), n)), r)
                       ELSE CtorThrew(v, r, f))

MoveCtor(v, o) ==
    /\ Idle
    /\ ~vec[v].alive
    /\ vec[o].alive
    /\ Done([vec EXCEPT ![v] = vec[o], ![o] = EmptyVec], heap, [Op("Vector(&&)", v) EXCEPT !.o = o])

Dtor(v) ==
    LET me == vec[v]
        d == DestroyN(Data(v), 0, me.size)
    IN /\ Idle
       /\ me.alive
       /\ Commit(v, Eff(NullVec, Deallocate(heap, me.buf),
                        [Op("~Vector", v) EXCEPT !.undone = 0 .. me.size - 1,
                                                 !.ubd = CountDead(Data(v), 0, me.size),
                                                 !.leaked = CountLive(d, 0, me.cap)]))

\* ---- copy assignment ----
\* the first c elements are assigned from rhs
AssignN(d, rd, c) == [i \in DOMAIN d |-> IF i <= c THEN At(rd, i - 1) ELSE d[i]]
\* slots [lo, hi) are copy-constructed from rhs
ConstructN(d, rd, lo, hi) == [i \in DOMAIN d |-> IF lo < i /\ i <= hi THEN At(rd, i - 1) ELSE d[i]]
\* the handler of the storage-reusing branch destroys slots [i, rhs.size_)
CopyAssignUndone(i, rsize) == i .. rsize - 1
CopyAssignFails(v, o) ==
    IF v = o THEN {None}
    ELSE IF vec[o].size > vec[v].cap THEN CopyCtorFails(o)
    ELSE {None} \cup Steps("assign", Min(vec[v].size, vec[o].size))
         \cup {<<"extra", i>> : i \in vec[v].size .. vec[o].size - 1}
CopyAssignEff(v, o, f) ==
    LET me == vec[v]
        d == Data(v)
        rd == Data(o)
        rsize == vec[o].size
        m == Min(me.size, rsize)
        r0 == [Op("operator=(const&)", v) EXCEPT !.o = o]
    IN IF v = o THEN Eff(me, heap, [r0 EXCEPT !.path = "self"])
       ELSE IF rsize > me.cap
       THEN LET r == [r0 EXCEPT !.path = "realloc"]
            IN IF f = None THEN SwapIn(v, d, CopyN(rd, rsize), rsize, rsize, r)
               ELSE CtorThrew(v, r, f)
       ELSE LET r == [r0 EXCEPT !.path = "reuse"]
                i == f[2]
                D == CopyAssignUndone(i, rsize)
                d1 == AssignN(d, rd, IF f[1] = "assign" THEN i ELSE m)
                hi == IF f[1] = "extra" THEN i ELSE rsize
                d2 == IF f[1] = "assign" THEN d1 ELSE ConstructN(d1, rd, m, hi)
                over == IF f[1] = "assign" THEN 0 ELSE CountLive(d1, m, hi)
            IN IF f = None
               THEN Eff([me EXCEPT !.size = rsize], Store(heap, me.buf, DestroyN(d2, rsize, me.size)),
                        [r EXCEPT !.leaked = over])
               ELSE Eff(me, Store(heap, me.buf, DestroySet(d2, D)),
                        [Threw(r, f) EXCEPT !.built = IF f[1] = "extra" THEN me.size .. i - 1 ELSE {},
                                            !.undone = D, !.leaked = over,
                                            !.ubd = CountDead(d2, i, rsize)])
CopyAssign(v, o) ==
    /\ Idle
    /\ Usable(v) /\ Usable(o)
    /\ IsCopyConstructible
    /\ vec[o].size > vec[v].cap => Fits(v, vec[o].size)
    /\ \E f \in CopyAssignFails(v, o) : Commit(v, CopyAssignEff(v, o, f))

\* ---- move assignment and Swap ----
KeptSize(s) == s
MovedFromSize(s) == 0
MoveAssign(v, o) ==
    LET r == [Op("operator=(&&)", v) EXCEPT !.o = o]
    IN /\ Idle
       /\ vec[v].alive /\ vec[o].alive
       /\ IF v = o THEN Done(vec, heap, [r EXCEPT !.path = "self"])
          ELSE Done([vec EXCEPT ![v] = vec[o],
                                ![o] = [vec[v] EXCEPT !.size = MovedFromSize(vec[o].size)]], heap, r)

Swap(v, o) ==
    /\ Idle
    /\ v # o
    /\ vec[v].alive /\ vec[o].alive
    /\ Done([vec EXCEPT ![v] = vec[o], ![o] = vec[v]], heap, [Op("Swap", v) EXCEPT !.o = o])

\* ---- the caller takes the result (or catches the exception) of the last operation ----
Return ==
    /\ ~Idle
    /\ last' = NoOp
    /\ UNCHANGED <<kind, room, vec, heap>>

\* the operations on one Vector
VectorOps(v) ==
    \/ \E n \in 0 .. room : Reserve(v, n)
    \/ \E n \in 0 .. room : Resize(v, n)
    \/ \E x \in Values : PushBack(v, x)
    \/ PopBack(v)
    \/ \E k \in 0 .. room : \E src \in Sources(v) : Insert(v, k, src)
    \/ \E k \in 0 .. room : Erase(v, k)
    \/ \E i \in 0 .. room, x \in Values : SetElem(v, i, x)
    \/ DefaultCtor(v)
    \/ \E n \in 0 .. room : SizedCtor(v, n)
    \/ Dtor(v)

\* the operations that take another Vector
PairOps(v, o) ==
    \/ CopyCtor(v, o)
    \/ MoveCtor(v, o)
    \/ CopyAssign(v, o)
    \/ MoveAssign(v, o)
    \/ Swap(v, o)

\* a program with one Vector
Next ==
    \/ Return
    \/ VectorOps("a")

Spec == Init /\ [][Next]_vars

\* a program with two Vectors
InitPair ==
    /\ kind \in Kinds
    /\ room = MaxSlots \div Cardinality(Vecs)
    /\ vec = [v \in Vecs |-> EmptyVec]
    /\ heap = [b \in BufIds |-> << >>]
    /\ last = NoOp

NextPair ==
    \/ Return
    \/ \E v \in Vecs : VectorOps(v)
    \/ \E v \in Vecs, o \in Vecs : PairOps(v, o)

SpecPair == InitPair /\ [][NextPair]_vars

\* a program that only appends to one default-constructed Vector
InitPush ==
    /\ kind \in Kinds
    /\ room = MaxPushSlots
    /\ vec = [v \in Vecs |-> IF v = "a" THEN EmptyVec ELSE NullVec]
    /\ heap = [b \in BufIds |-> << >>]
    /\ last = NoOp

NextPush ==
    \/ Return
    \/ \E x \in Values : PushBack("a", x)

SpecPush == InitPush /\ [][NextPush]_vars

\* a program that pushes, inserts, erases and pops the values of the worked example
TraceVals == {1, 2, 3, 10}
InitTrace ==
    /\ kind \in Kinds
    /\ room = MaxSlots
    /\ vec = [v \in Vecs |-> IF v = "a" THEN EmptyVec ELSE NullVec]
    /\ heap = [b \in BufIds |-> << >>]
    /\ last = NoOp

NextTrace ==
    \/ Return
    \/ \E x \in TraceVals : PushBack("a", x)
    \/ \E k \in 0 .. room, x \in TraceVals :
          Insert("a", k, [from |-> "ext", x |-> x, j |-> -1, mv |-> ~IsCopyConstructible])
    \/ \E k \in 0 .. room : Erase("a", k)
    \/ PopBack("a")

SpecTrace == InitTrace /\ [][NextTrace]_vars

\* ---- properties ----
InsertAt(s, k, x) == SubSeq(s, 1, k) \o <<x>> \o SubSeq(s, k + 1, Len(s))
RemoveAt(s, k) == SubSeq(s, 1, k) \o SubSeq(s, k + 2, Len(s))
IsPowerOfTwo(c) == \E e \in 0 .. c : 2 ^ e = c
\* the step just taken was operation `name`, and it returned normally / threw
Ran(name) == Idle /\ last'.op = name /\ last'.out = "ok"
Failed(name) == Idle /\ last'.op = name /\ last'.out = "threw"
\* a Vector after the step
DataAfter(v) == DataOf(vec', heap', v)
ContentsAfter(v) == ContentsOf(vec', heap', v)
SameVector(v) == vec'[v] = vec[v] /\ DataAfter(v) = Data(v)
NoBlockKept == \A b \in BufIds : heap[b] = << >> => heap'[b] = << >>

\* C1: every constructed Vector has size <= capacity, a live element in every slot
\* of [0, size) and no live element in any slot of [size, capacity) of its block.
PartitionInvariant ==
    \A v \in Vecs :
        vec[v].alive =>
            /\ vec[v].size <= vec[v].cap
            /\ LiveIn(Data(v), 0, vec[v].size) = 0 .. vec[v].size - 1
            /\ LiveIn(Data(v), vec[v].size, vec[v].cap) = {}

\* C2: in a run of pushes from a default-constructed Vector, each successful push
\* adds one to the size, the capacity is then the smallest power of two >= size,
\* and the capacity changes only on a push made at size = capacity, to 1 from 0
\* and to twice the old capacity otherwise.
DoublingGrowth ==
    [][Ran("EmplaceBack") =>
        LET size == vec["a"].size
            cap == vec["a"].cap
            size2 == vec'["a"].size
            cap2 == vec'["a"].cap
        IN /\ size2 = size + 1
           /\ cap2 >= size2 /\ IsPowerOfTwo(cap2)
           /\ \A c \in size2 .. cap2 - 1 : ~IsPowerOfTwo(c)
           /\ (cap2 # cap) = (size = cap)
           /\ cap2 # cap => cap2 = (IF cap = 0 THEN 1 ELSE 2 * cap)]_vars
DoublingGrowthWitness ==
    last.op = "EmplaceBack" /\ last.out = "ok" /\ last.path = "realloc" /\ vec["a"].cap = 8 /\ vec["a"].size = 5

\* C3: a successful Insert at index k of a value v held outside the array leaves
\* s[0..k), v, s[k..n), one element more, and returns index k.
InsertResult ==
    [][Ran("Insert") /\ last'.arg = "value" =>
        LET v == last'.v
            k == last'.k
        IN /\ ContentsAfter(v) = InsertAt(Contents(v), k, last'.x)
           /\ vec'[v].size = vec[v].size + 1
           /\ last'.ret = k]_vars
InsertResultWitness ==
    /\ last.op = "Insert" /\ last.out = "ok" /\ last.arg = "value"
    /\ last.path = "spare-mid" /\ last.k = 1 /\ vec["a"].size = 4
    /\ Contents("a")[1] # Contents("a")[3]
InsertReallocWitness ==
    /\ last.op = "Insert" /\ last.out = "ok" /\ last.arg = "value"
    /\ last.path = "realloc" /\ last.k = 1 /\ vec["a"].size = 3

\* C4: Erase at index k leaves s[0..k), s[k+1..n): one element fewer, the same
\* capacity and block, and exactly the former last slot goes from live to not live.
EraseResult ==
    [][Ran("Erase") =>
        LET v == last'.v
            k == last'.k
        IN /\ ContentsAfter(v) = RemoveAt(Contents(v), k)
           /\ vec'[v].size = vec[v].size - 1
           /\ vec'[v].cap = vec[v].cap /\ vec'[v].buf = vec[v].buf
           /\ LiveIn(Data(v), 0, vec[v].cap) \ LiveIn(DataAfter(v), 0, vec[v].cap) = {vec[v].size - 1}
           /\ last'.ret = k]_vars
EraseResultWitness ==
    /\ last.op = "Erase" /\ last.out = "ok" /\ last.k = 1 /\ vec["a"].size = 3
    /\ Contents("a")[1] # Contents("a")[2]

\* C5: a successful Insert at index k of the array's own element j, passed by
\* const reference, leaves what inserting the pre-call value of slot j would leave.
SelfInsert ==
    [][Ran("Insert") /\ last'.arg = "self" =>
        LET v == last'.v
        IN /\ ContentsAfter(v) = InsertAt(Contents(v), last'.k, At(Data(v), last'.j))
           /\ vec'[v].size = vec[v].size + 1]_vars
SelfInsertWitness ==
    /\ last.op = "Insert" /\ last.out = "ok" /\ last.arg = "self"
    /\ last.path = "spare-mid" /\ last.k = 0 /\ last.j = 1 /\ vec["a"].size = 3
    /\ Contents("a")[1] # Contents("a")[2]

\* C6: a successful copy construction or copy assignment gives the target the
\* source's elements in order and leaves the source as it was; and PushBack, Insert,
\* Erase, Resize, PopBack and element assignment on one Vector leave the other as it was.
Mutators == {"EmplaceBack", "Insert", "Erase", "Resize", "PopBack", "SetElem"}
CopyIsDeep ==
    [][/\ (Ran("Vector(const&)") \/ Ran("operator=(const&)")) =>
            /\ ContentsAfter(last'.v) = Contents(last'.o)
            /\ vec'[last'.v].size = vec[last'.o].size
            /\ SameVector(last'.o)
       /\ (Idle /\ last'.op \in Mutators) =>
            \A u \in Vecs \ {last'.v} : SameVector(u)]_vars
CopyIsDeepWitness ==
    /\ last.op = "operator=(const&)" /\ last.out = "ok" /\ last.path = "reuse"
    /\ last.v = "b" /\ last.o = "a" /\ vec["b"].size = 2
    /\ Contents("b") = Contents("a") /\ Contents("a")[1] # Contents("a")[2]

\* C7: move construction, and move assignment between two distinct Vectors, hand the
\* source's block over: the target has the source's size and elements, the source
\* has size 0, no element is touched, and the operation does not throw.
MoveTransfers ==
    [][Idle /\ last'.op \in {"Vector(&&)", "operator=(&&)"} /\ last'.v # last'.o =>
        LET v == last'.v
            o == last'.o
        IN /\ last'.out = "ok"
           /\ vec'[o].size = 0
           /\ vec'[v].size = vec[o].size /\ vec'[v].buf = vec[o].buf
           /\ ContentsAfter(v) = Contents(o)
           /\ heap' = heap]_vars
MoveTransfersWitness ==
    /\ last.op = "operator=(&&)" /\ last.v = "b" /\ last.o = "a"
    /\ vec["b"].size = 2 /\ vec["a"].size = 0

\* C8 as stated: a Reserve that throws while transferring element i leaves size,
\* capacity and every element as before, has destroyed exactly the i elements built
\* in the new block, and keeps no new block.
ReserveStrongAnyType ==
    [][Failed("Reserve") /\ last'.f = "xfer" =>
        /\ SameVector(last'.v)
        /\ last'.built = 0 .. last'.fi - 1 /\ last'.undone = last'.built
        /\ NoBlockKept]_vars
\* C8 amended: the same, for a copy-constructible element type.
ReserveStrong ==
    [][Failed("Reserve") /\ last'.f = "xfer" /\ IsCopyConstructible =>
        /\ SameVector(last'.v)
        /\ last'.built = 0 .. last'.fi - 1 /\ last'.undone = last'.built
        /\ NoBlockKept]_vars
ReserveStrongWitness ==
    /\ last.op = "Reserve" /\ last.out = "threw" /\ last.f = "xfer" /\ last.fi = 2
    /\ IsCopyConstructible /\ vec["a"].size = 3

\* C9: when EmplaceBack on a full Vector throws at a construction step, the handler
\* destroys exactly the elements built in the new block, the new element included,
\* and the Vector keeps its size, capacity and contents.
EmplaceBackRollback ==
    [][Failed("EmplaceBack") /\ last'.path = "realloc" /\ last'.f \in {"ctor", "xfer"} =>
        /\ last'.undone = last'.built
        /\ vec'[last'.v] = vec[last'.v]
        /\ ContentsAfter(last'.v) = Contents(last'.v)
        /\ NoBlockKept]_vars

\* C10: when Insert on a full Vector throws at a construction step, the Vector keeps
\* its size, capacity and contents, its old block is not modified, and exactly the
\* elements built in the new block have been destroyed.
InsertReallocStrong ==
    [][Failed("Insert") /\ last'.path = "realloc" /\ last'.f \in {"ctor", "xfer"} =>
        /\ SameVector(last'.v)
        /\ last'.undone = last'.built
        /\ NoBlockKept]_vars

\* C11: when copy assignment into existing storage throws while copy-constructing the
\* extra element at slot i, the elements it added in slots [size, i) are destroyed,
\* no other slot is destroyed, and the size is the one before the call.
CopyAssignRollback ==
    [][Failed("operator=(const&)") /\ last'.path = "reuse" /\ last'.f = "extra" =>
        LET v == last'.v
        IN /\ last'.built = vec[v].size .. last'.fi - 1
           /\ last'.undone = last'.built
           /\ vec'[v].size = vec[v].size]_vars

\* C12: when copy assignment into existing storage throws while assigning element i of
\* the overlapping prefix, the size is the one before the call and every slot of
\* [0, size) still holds a live element.
CopyAssignBasic ==
    [][Failed("operator=(const&)") /\ last'.path = "reuse" /\ last'.f = "assign" =>
        LET v == last'.v
        IN /\ vec'[v].size = vec[v].size
           /\ LiveIn(DataAfter(v), 0, vec'[v].size) = 0 .. vec'[v].size - 1]_vars

\* C13: Resize to a smaller size does not throw, destroys exactly the slots
\* [newSize, oldSize) and keeps the capacity; Resize to a larger size, when it returns,
\* keeps the first oldSize elements and has the new size; when value-construction of a
\* new element throws, exactly the elements this call added have been destroyed, each
\* once, and the size and the first oldSize elements are as before the call.
ResizeContract ==
    [][Idle /\ last'.op = "Resize" =>
        LET v == last'.v
            old == vec[v].size
        IN /\ last'.path = "shrink" =>
                /\ last'.out = "ok"
                /\ vec'[v] = [vec[v] EXCEPT !.size = last'.k]
                /\ LiveIn(Data(v), 0, vec[v].cap) \ LiveIn(DataAfter(v), 0, vec[v].cap) = last'.k .. old - 1
                /\ ContentsAfter(v) = SubSeq(Contents(v), 1, last'.k)
           /\ last'.path \in {"spare", "realloc"} /\ last'.out = "ok" =>
                /\ vec'[v].size = last'.k /\ last'.k > old
                /\ SubSeq(ContentsAfter(v), 1, old) = Contents(v)
           /\ last'.out = "threw" /\ last'.f = "fill" =>
                /\ last'.undone = last'.built /\ last'.ubd = 0
                /\ vec'[v].size = old
                /\ ContentsAfter(v) = Contents(v)]_vars

\* C14: when the allocation of a new block fails, in Reserve, Resize, EmplaceBack,
\* Insert (of an outside value or of the array's own element, by const T& or by T&&)
\* or copy assignment, the Vector has the size, capacity and elements it had before
\* the call, and no other Vector is changed.
AllocFailureUnchanged ==
    [][Idle /\ last'.out = "threw" /\ last'.f = "alloc" =>
        \A u \in Vecs : SameVector(u)]_vars

\* C15: Reserve(c) with c <= capacity changes nothing and allocates nothing; Reserve(c)
\* with c > capacity, when it returns, leaves capacity c exactly and the size and the
\* elements, in order, as they were; and on the Vector a successful Reserve(c) leaves,
\* Reserve(c) again changes nothing and allocates nothing.
ReserveExact ==
    /\ [][Idle /\ last'.op = "Reserve" /\ last'.out = "ok" =>
            LET v == last'.v
            IN IF last'.path = "noop"
               THEN vec' = vec /\ heap' = heap
               ELSE /\ last'.k > vec[v].cap
                    /\ vec'[v].cap = last'.k
                    /\ vec'[v].size = vec[v].size
                    /\ ContentsAfter(v) = Contents(v)]_vars
    /\ [][Idle /\ last'.op = "Reserve" /\ last'.path = "noop" => last'.out = "ok"]_vars
    /\ [](last.op = "Reserve" /\ last.out = "ok" /\ last.path = "realloc" =>
            LET v == last.v
                again == ReserveEff(v, last.k, None, Op("Reserve", v))
            IN /\ ReserveFails(v, last.k) = {None}
               /\ again.rec.path = "noop"
               /\ again.me = vec[v] /\ again.h = heap)
ReserveExactWitness ==
    /\ last.op = "Reserve" /\ last.out = "ok" /\ last.path = "realloc" /\ last.k = 3
    /\ vec["a"].cap = 3 /\ vec["a"].size = 2 /\ Contents("a")[1] # Contents("a")[2]

\* Vector a holds the elements c before the step / after it
Holds(c) == vec["a"].alive /\ Contents("a") = c
Gives(c) == ContentsAfter("a") = c /\ vec'["a"].size = Len(c)
\* C16: from a default-constructed Vector, PushBack(1), PushBack(2), PushBack(3) give
\* [1], [1,2], then [1,2,3] with size 3 and capacity 4; Insert(begin()+1, 10) then
\* gives [1,10,2,3] with size 4 in the same block of capacity 4; Erase(begin()) then
\* gives [10,2,3]; PopBack() then gives [10,2].
ConcreteTrace ==
    [][/\ Holds(<< >>) /\ vec["a"].cap = 0 /\ Ran("EmplaceBack") /\ last'.x = 1 =>
            Gives(<<1>>)
       /\ Holds(<<1>>) /\ vec["a"].cap = 1 /\ Ran("EmplaceBack") /\ last'.x = 2 =>
            Gives(<<1, 2>>)
       /\ Holds(<<1, 2>>) /\ vec["a"].cap = 2 /\ Ran("EmplaceBack") /\ last'.x = 3 =>
            Gives(<<1, 2, 3>>) /\ vec'["a"].cap = 4
       /\ Holds(<<1, 2, 3>>) /\ vec["a"].cap = 4 /\ Ran("Insert") /\ last'.k = 1 /\ last'.x = 10 =>
            Gives(<<1, 10, 2, 3>>) /\ vec'["a"].cap = 4 /\ vec'["a"].buf = vec["a"].buf
       /\ Holds(<<1, 10, 2, 3>>) /\ Ran("Erase") /\ last'.k = 0 =>
            Gives(<<10, 2, 3>>)
       /\ Holds(<<10, 2, 3>>) /\ Ran("PopBack") =>
            Gives(<<10, 2>>)]_vars
ConcreteTraceWitness ==
    /\ last.op = "PopBack" /\ Contents("a") = <<10, 2>> /\ vec["a"].cap = 4

\* C17: when Insert at index k < size with spare capacity throws while constructing the
\* value for slot k, after the tail was shifted, the shift is undone: slots [0, size)
\* hold the values they held before the call in the same order, the extra slot at
\* index size has been destroyed, and the size is the one before the call.
ShiftUndone ==
    [][Failed("Insert") /\ last'.path = "spare-mid" /\ last'.f = "ctor" =>
        LET v == last'.v
        IN /\ vec'[v] = vec[v]
           /\ ContentsAfter(v) = Contents(v)
           /\ At(DataAfter(v), vec[v].size) = NoObj
           /\ last'.undone = {vec[v].size}]_vars

\* C18: for a copy-constructible element type whose move constructor may throw, a
\* relocation into a new block (in Reserve, a growing Resize, EmplaceBack or Insert on a
\* full array) copies: whenever such an operation throws, no slot of the old block has
\* been modified by it, the one exception being the array's own element that the
\* caller passed to Insert as an rvalue. Elements of the old block are moved from
\* only for a type whose move constructor cannot throw or that cannot be copied.
Relocating == {"Reserve", "Resize", "EmplaceBack", "Insert"}
MoveOrCopy ==
    [][(Idle /\ last'.op \in Relocating /\ last'.path = "realloc"
             /\ last'.out = "threw" /\ last'.f \in {"alloc", "xfer", "ctor"}) =>
        LET v == last'.v
        IN \/ SameVector(v)
           \/ /\ last'.arg = "self-rvalue"
              /\ vec'[v] = vec[v]
              /\ \E j \in 0 .. vec[v].size - 1 : DataAfter(v) = Put(Data(v), j, MovedFrom)
           \/ IsNothrowMoveConstructible
           \/ ~IsCopyConstructible]_vars
MoveOrCopyWitness ==
    /\ last.op = "EmplaceBack" /\ last.out = "threw" /\ last.f = "xfer" /\ last.fi = 1
    /\ kind = "ThrowingMove" /\ vec["a"].size = 2 /\ Contents("a")[1] # Contents("a")[2]

\* C19: no operation, on its normal path or in a handler, destroys a slot that holds
\* no live element: no slot is destroyed twice and no raw slot is destroyed.
DestroysOnlyLive == last.ubd = 0

\* C20: after a = std::move(b) between two distinct Vectors, with a holding n >= 1
\* elements before, each of those n elements has been destroyed or lies in [0, size)
\* of the Vector that now owns its block.
MoveAssignNoLeak ==
    [][(Idle /\ last'.op = "operator=(&&)" /\ last'.v # last'.o /\ vec[last'.v].size >= 1) =>
        LET blk == vec[last'.v].buf
        IN \A i \in 0 .. vec[last'.v].size - 1 :
              \/ At(heap'[blk], i) = NoObj
              \/ \E u \in Vecs : vec'[u].alive /\ vec'[u].buf = blk /\ i < vec'[u].size]_vars
====
